---- MODULE Spec2Model ----
(***************************************************************************)
(* monarch-bridge (src/main.py): a sidecar that keeps one authenticated     *)
(* session against a remote provider, persists it to SESSION_FILE, pings    *)
(* the provider from a background keep-alive task and exposes five routes.  *)
(*                                                                          *)
(* One asyncio event loop runs everything.  A coroutine runs atomically     *)
(* from one await of a remote call to the next, so every handler is one     *)
(* action up to its await (or up to its response when it never awaits) and  *)
(* one action from the remote call's outcome to its response.               *)
(*                                                                          *)
(* The remote client (monarchmoney.MonarchMoney) is an external library:    *)
(* each of its calls is a nondeterministic outcome at the call site.  A     *)
(* call that succeeds in authenticating installs a credential in mm.token;  *)
(* every other outcome leaves mm.token as it was.                           *)
(***************************************************************************)
EXTENDS Integers, FiniteSets, Bags, TLC

VARIABLES
    phase,      \* lifespan: "init", "autologin", "running", "stopped", "failed"
    token,      \* mm.token: NoToken or a credential
    disk,       \* the file at SESSION_FILE
    kaPc,       \* keep_alive_loop: "notstarted", "check", "pinging", "sleeping", "dead"
    kaFails,    \* consecutive failed keep-alive pings (saturating at MaxFails)
    kaSlept,    \* keep_alive_loop has completed an asyncio.sleep since it started
    saved,      \* the latest save_session call: "never", "ok" or "failed"
    inflight,   \* bag of route handlers suspended at their remote call
    last        \* what the latest step completed, as its caller observes it:
                \* a response, the outcome of startup or shutdown, or NoEvent

vars == <<phase, token, disk, kaPc, kaFails, kaSlept, saved, inflight, last>>

----------------------------------------------------------------------------
(* Bounds *)

NumCreds == 2       \* distinct credentials the provider may hand out
MaxFails == 2       \* the consecutive-failure counter saturates here
MaxReq == 2         \* handlers suspended at a remote call at the same time
MaxSetFields == 1   \* fields a PATCH body sets at most

(* Program constants *)

NoToken == 0                \* mm.token is None
TRANSACTION_LIMIT == 1000   \* limit=1000 of get_transactions
DEFAULT_DAYS == 30          \* Query(30)

Creds == 1..NumCreds

----------------------------------------------------------------------------
(* The session file *)

Absent == [kind |-> "absent", token |-> NoToken]
Corrupt == [kind |-> "corrupt", token |-> NoToken]
Blob(t) == [kind |-> "blob", token |-> t]

Disks == {Absent, Corrupt} \cup {Blob(c) : c \in Creds}

is_authenticated(t) == t # NoToken

(* Outcomes of the file operations behind save_session / load_session. *)
SaveOutcomes == {"ok", "makedirs_error", "write_error"}

(* save_session without its try/except: a failed file operation raises. *)
save_session_raises(t, d, outcome) ==
    CASE outcome = "ok" -> [disk |-> Blob(t), raised |-> FALSE, ok |-> TRUE]
      [] outcome = "makedirs_error" -> [disk |-> d, raised |-> TRUE, ok |-> FALSE]
      [] outcome = "write_error" -> [disk |-> Corrupt, raised |-> TRUE, ok |-> FALSE]

(* save_session(): what it leaves on disk and whether an exception leaves it. *)
save_session(t, d, outcome) ==
    CASE outcome = "ok" -> [disk |-> Blob(t), raised |-> FALSE, ok |-> TRUE]
      [] outcome = "makedirs_error" -> [disk |-> d, raised |-> FALSE, ok |-> FALSE]
      [] outcome = "write_error" -> [disk |-> Corrupt, raised |-> FALSE, ok |-> FALSE]

(* load_session without its try/except: a failed load raises. *)
load_session_raises(t, d, fails) ==
    IF d.kind # "absent"
    THEN IF ~fails
         THEN [ret |-> TRUE, token |-> d.token, calls |-> 1, raised |-> FALSE]
         ELSE [ret |-> FALSE, token |-> t, calls |-> 1, raised |-> TRUE]
    ELSE [ret |-> FALSE, token |-> t, calls |-> 0, raised |-> FALSE]

(* load_session(): return value, the credential afterwards, calls of        *)
(* mm.load_session and whether an exception leaves it.  `fails` is the      *)
(* outcome of the underlying load of an existing file.                      *)
load_session(t, d, fails) ==
    IF d.kind # "absent"
    THEN IF ~fails
         THEN [ret |-> TRUE, token |-> d.token, calls |-> 1, raised |-> FALSE]
         ELSE [ret |-> FALSE, token |-> t, calls |-> 1, raised |-> FALSE]
    ELSE [ret |-> FALSE, token |-> t, calls |-> 0, raised |-> FALSE]

(* The underlying load of a file that exists may fail; of a corrupt one it does. *)
LoadFailures(d) == IF d.kind = "corrupt" THEN {TRUE} ELSE {TRUE, FALSE}

----------------------------------------------------------------------------
(* Requests, remote calls and responses *)

None == "None"

(* TransactionUpdate: six optional fields, None when absent from the body.  *)
(* Each field's values include one that Python treats as false.             *)
Fields == {"notes", "category_id", "needs_review", "merchant_name", "amount", "date"}

FieldValues(f) ==
    CASE f = "needs_review" -> {"False", "True"}
      [] f = "amount" -> {"0.0", "12.5"}
      [] OTHER -> {"", "x"}

Falsy == {None, "", "False", "0.0"}

NoUpdate == [f \in Fields |-> None]

Ids == {"123", "456"}

NoCall == [fn |-> "none", id |-> "", kwargs |-> <<>>, limit |-> 0,
           start_date |-> <<>>, end_date |-> <<>>]

(* A route handler suspended at its remote call. *)
Handler(op, id, update, days, now, call) ==
    [op |-> op, id |-> id, update |-> update, days |-> days, now |-> now,
     call |-> call]

(* What the caller of a route receives, with the request it answers, the    *)
(* handler's remote call and its outcome, its save_session calls, and       *)
(* mm.token at the moment the response is produced.  now is the day         *)
(* datetime.now() fell on, as an ordinal (0 for the routes that do not      *)
(* read the clock); extra is logged_in of GET /health.                      *)
Resp(op, status, body, id, update, days, now, call, remote, saves, saveOk, tok, extra) ==
    [ev |-> "response", op |-> op, status |-> status, body |-> body,
     id |-> id, update |-> update, days |-> days, now |-> now, call |-> call,
     remote |-> remote, saves |-> saves, saveOk |-> saveOk, tok |-> tok,
     extra |-> extra]

NoEvent == [ev |-> "none"]

----------------------------------------------------------------------------
(* Authentication: perform_login and the MFA route *)

(* Outcomes of mm.login and of mm.multi_factor_authenticate. *)
LoginOutcomes == {"ok", "RequireMFAException", "LoginFailedException", "Exception"}
MfaOutcomes == {"token", "no_token", "LoginFailedException", "Exception"}

(* perform_login's except clauses without the RequireMFAException one. *)
PerformLoginExcept_no_mfa_clause(e) ==
    CASE e = "LoginFailedException" ->
            [raised |-> TRUE, status |-> 401, body |-> "detail"]
      [] OTHER ->
            [raised |-> TRUE, status |-> 500, body |-> "detail"]

(* The except clauses of perform_login, in order. *)
PerformLoginExcept(e) ==
    CASE e = "RequireMFAException" ->
            [raised |-> FALSE, status |-> 200, body |-> "mfa_required"]
      [] e = "LoginFailedException" ->
            [raised |-> TRUE, status |-> 401, body |-> "detail"]
      [] OTHER ->
            [raised |-> TRUE, status |-> 500, body |-> "detail"]

(* perform_login saving the session whatever mm.login did (a finally). *)
perform_login_save_always(t, d, outcome, c, so) ==
    LET t1 == IF outcome = "ok" THEN c ELSE t
        sv == save_session(t1, d, so)
    IN  IF outcome = "ok"
        THEN [raised |-> FALSE, status |-> 200, body |-> "success",
              token |-> t1, disk |-> sv.disk, saves |-> 1, saveOk |-> sv.ok]
        ELSE PerformLoginExcept(outcome) @@
             [token |-> t, disk |-> sv.disk, saves |-> 1, saveOk |-> sv.ok]

(* perform_login without the save_session call after a successful login. *)
perform_login_no_save(t, d, outcome, c, so) ==
    LET t1 == IF outcome = "ok" THEN c ELSE t
    IN  IF outcome = "ok"
        THEN [raised |-> FALSE, status |-> 200, body |-> "success",
              token |-> t1, disk |-> d, saves |-> 0, saveOk |-> FALSE]
        ELSE PerformLoginExcept(outcome) @@
             [token |-> t, disk |-> d, saves |-> 0, saveOk |-> FALSE]

(* perform_login calling save_session before mm.login instead of after. *)
perform_login_save_first(t, d, outcome, c, so) ==
    LET t1 == IF outcome = "ok" THEN c ELSE t
        sv == save_session(t, d, so)
    IN  IF outcome = "ok"
        THEN [raised |-> FALSE, status |-> 200, body |-> "success",
              token |-> t1, disk |-> sv.disk, saves |-> 1, saveOk |-> sv.ok]
        ELSE PerformLoginExcept(outcome) @@
             [token |-> t, disk |-> sv.disk, saves |-> 1, saveOk |-> sv.ok]

(* perform_login from the outcome of mm.login on: the credential c is the   *)
(* one a successful login installs, so the outcome of the save's file       *)
(* operations.  raised: the result is an HTTPException, not a dict.         *)
perform_login(t, d, outcome, c, so) ==
    LET t1 == IF outcome = "ok" THEN c ELSE t
        sv == save_session(t1, d, so)
    IN  IF outcome = "ok"
        THEN IF sv.raised
             THEN PerformLoginExcept("Exception") @@
                  [token |-> t1, disk |-> sv.disk, saves |-> 1, saveOk |-> sv.ok]
             ELSE [raised |-> FALSE, status |-> 200, body |-> "success",
                   token |-> t1, disk |-> sv.disk, saves |-> 1, saveOk |-> sv.ok]
        ELSE PerformLoginExcept(outcome) @@
             [token |-> t, disk |-> d, saves |-> 0, saveOk |-> FALSE]

(* The except clause of mfa: `except Exception` also catches the            *)
(* HTTPException raised inside the try block.                               *)
MfaExcept(e) == [status |-> 500, body |-> "detail"]

(* mfa dropping the credential in memory when the remote call fails. *)
mfa_clears_token(t, d, outcome, c, so) ==
    LET t1 == IF outcome = "token" THEN c ELSE t
        sv == save_session(t1, d, so)
    IN  IF outcome \in {"LoginFailedException", "Exception"}
        THEN MfaExcept(outcome) @@
             [token |-> NoToken, disk |-> d, saves |-> 0, saveOk |-> FALSE]
        ELSE IF is_authenticated(t1)
             THEN IF sv.raised
                  THEN MfaExcept("Exception") @@
                       [token |-> t1, disk |-> sv.disk, saves |-> 1, saveOk |-> sv.ok]
                  ELSE [status |-> 200, body |-> "success",
                        token |-> t1, disk |-> sv.disk, saves |-> 1, saveOk |-> sv.ok]
             ELSE MfaExcept("HTTPException") @@
                  [token |-> t1, disk |-> d, saves |-> 0, saveOk |-> FALSE]

(* mfa from the outcome of mm.multi_factor_authenticate on. *)
mfa(t, d, outcome, c, so) ==
    LET t1 == IF outcome = "token" THEN c ELSE t
        sv == save_session(t1, d, so)
    IN  IF outcome \in {"LoginFailedException", "Exception"}
        THEN MfaExcept(outcome) @@
             [token |-> t, disk |-> d, saves |-> 0, saveOk |-> FALSE]
        ELSE IF is_authenticated(t1)
             THEN IF sv.raised
                  THEN MfaExcept("Exception") @@
                       [token |-> t1, disk |-> sv.disk, saves |-> 1, saveOk |-> sv.ok]
                  ELSE [status |-> 200, body |-> "success",
                        token |-> t1, disk |-> sv.disk, saves |-> 1, saveOk |-> sv.ok]
             ELSE MfaExcept("HTTPException") @@
                  [token |-> t1, disk |-> d, saves |-> 0, saveOk |-> FALSE]

(* health_check reporting a constant instead of the current state. *)
health_check_constant(t) == [status |-> "ok", logged_in |-> TRUE]

(* health_check: the body of the response. *)
health_check(t) == [status |-> "ok", logged_in |-> is_authenticated(t)]

----------------------------------------------------------------------------
(* Transactions: dates, the update set, and the two handlers *)

DaysBeforeMonth == <<0, 31, 59, 90, 120, 151, 181, 212, 243, 273, 304, 334>>
DaysInMonth == <<31, 28, 31, 30, 31, 30, 31, 31, 30, 31, 30, 31>>

(* The calendar date of a proleptic Gregorian ordinal (day 1 is 0001-01-01), *)
(* as <<year, month, day>>: what strftime("%Y-%m-%d") prints of it.          *)
StrfDate(ordinal) ==
    LET n == ordinal - 1
        n400 == n \div 146097
        r400 == n % 146097
        n100 == r400 \div 36524
        r100 == r400 % 36524
        n4 == r100 \div 1461
        r4 == r100 % 1461
        n1 == r4 \div 365
        r1 == r4 % 365
        year == n400 * 400 + 1 + n100 * 100 + n4 * 4 + n1
        leap == n1 = 3 /\ (n4 # 24 \/ n100 = 3)
        m0 == (r1 + 50) \div 32
        p0 == DaysBeforeMonth[m0] + (IF m0 > 2 /\ leap THEN 1 ELSE 0)
        month == IF p0 > r1 THEN m0 - 1 ELSE m0
        preceding == IF p0 > r1
                     THEN p0 - (DaysInMonth[month] +
                                (IF month = 2 /\ leap THEN 1 ELSE 0))
                     ELSE p0
    IN  IF n1 = 4 \/ n100 = 4
        THEN <<year - 1, 12, 31>>
        ELSE <<year, month, r1 - preceding + 1>>

(* timedelta(days=days) and now - timedelta raise OverflowError outside     *)
(* the ranges of timedelta and of datetime.                                 *)
DateOverflow(now, days) ==
    \/ days > 999999999
    \/ days < -999999999
    \/ now - days < 1
    \/ now - days > 3652059

(* kwargs built with `if v` instead of `if v is not None`. *)
Kwargs_truthy(update) == [f \in {g \in Fields : update[g] \notin Falsy} |-> update[f]]

(* kwargs = {k: v for k, v in update.model_dump().items() if v is not None} *)
Kwargs(update) == [f \in {g \in Fields : update[g] # None} |-> update[f]]

(* The decisions of the handlers up to their first await: a response, or    *)
(* the remote call they suspend at.                                         *)
Respond(status, body) == [kind |-> "respond", status |-> status, body |-> body, call |-> NoCall]
Await(call) == [kind |-> "await", status |-> 0, body |-> "", call |-> call]

(* get_transactions passing the two ends of the window the wrong way round. *)
get_transactions_swapped(t, days, now) ==
    IF ~is_authenticated(t)
    THEN Respond(401, "detail")
    ELSE IF DateOverflow(now, days)
         THEN Respond(500, "detail")
         ELSE Await([NoCall EXCEPT !.fn = "get_transactions",
                                   !.limit = TRANSACTION_LIMIT,
                                   !.start_date = StrfDate(now),
                                   !.end_date = StrfDate(now - days)])

get_transactions(t, days, now) ==
    IF ~is_authenticated(t)
    THEN Respond(401, "detail")
    ELSE IF DateOverflow(now, days)
         THEN Respond(500, "detail")
         ELSE Await([NoCall EXCEPT !.fn = "get_transactions",
                                   !.limit = TRANSACTION_LIMIT,
                                   !.start_date = StrfDate(now - days),
                                   !.end_date = StrfDate(now)])

(* update_transaction with the empty-update check ahead of the authentication check. *)
update_transaction_empty_first(t, id, update) ==
    IF Kwargs(update) = <<>>
    THEN Respond(200, "no_change")
    ELSE IF ~is_authenticated(t)
         THEN Respond(401, "detail")
         ELSE Await([NoCall EXCEPT !.fn = "update_transaction", !.id = id,
                                   !.kwargs = Kwargs(update)])

update_transaction(t, id, update) ==
    IF ~is_authenticated(t)
    THEN Respond(401, "detail")
    ELSE IF Kwargs(update) = <<>>
         THEN Respond(200, "no_change")
         ELSE Await([NoCall EXCEPT !.fn = "update_transaction", !.id = id,
                                   !.kwargs = Kwargs(update)])

(* The handlers from the outcome of their remote call on. *)
RemoteOutcomes == {"ok", "Exception"}
Payloads == {"[]", "[tx]"}

get_transactions_return(outcome, payload) ==
    IF outcome = "ok"
    THEN [status |-> 200, body |-> payload]
    ELSE [status |-> 500, body |-> "detail"]

update_transaction_return(outcome) ==
    IF outcome = "ok"
    THEN [status |-> 200, body |-> "success"]
    ELSE [status |-> 500, body |-> "detail"]

(* Request inputs *)
Nows == {738946, 739252}            \* 2024-03-01, 2025-01-01
DaysInputs == {DEFAULT_DAYS, 1, 800000}

(* The request bodies that set at most k fields. *)
RECURSIVE UpdatesSetting(_)
UpdatesSetting(k) ==
    IF k = 0
    THEN {NoUpdate}
    ELSE LET fewer == UpdatesSetting(k - 1)
         IN  fewer \cup
             UNION {{[u EXCEPT ![f] = v] : v \in FieldValues(f)} :
                        u \in fewer, f \in Fields}

UpdateInputs == UpdatesSetting(MaxSetFields)

----------------------------------------------------------------------------
(* Keep-alive *)

PingOutcomes == {"ok", "Exception"}

(* keep_alive_loop pinging whatever is_authenticated returns. *)
KeepAliveAfterCheck_always_ping(t) == "pinging"

(* keep_alive_loop after the check: ping when authenticated, else sleep. *)
KeepAliveAfterCheck(t) == IF is_authenticated(t) THEN "pinging" ELSE "sleeping"

(* keep_alive_loop, the check as the provider sees it: is_authenticated's   *)
(* answer and the call the iteration goes on to await, if any.              *)
GetAccountsCall == [NoCall EXCEPT !.fn = "get_accounts"]
KeepAliveEvent(t, pc) ==
    [ev |-> "keepalive", authed |-> is_authenticated(t),
     call |-> IF pc = "pinging" THEN GetAccountsCall ELSE NoCall]

(* keep_alive_loop without its try/except: a failed ping ends the task. *)
KeepAliveAfterPing_dies(outcome) == IF outcome = "ok" THEN "sleeping" ELSE "dead"

(* keep_alive_loop after mm.get_accounts: `except Exception` logs a failure *)
(* and the loop goes on to asyncio.sleep.                                   *)
KeepAliveAfterPing(outcome) == "sleeping"

(* keep_alive_loop with asyncio.sleep at the top of the loop body. *)
KeepAliveEntry_sleep_first == "sleeping"

(* keep_alive_loop as the task is created: the loop body opens with the     *)
(* is_authenticated check; asyncio.sleep is its last statement.             *)
KeepAliveEntry == "check"

----------------------------------------------------------------------------
(* How the latest save_session call went, after a step that made `saves`    *)
(* calls of it.                                                             *)
SavedAfter(prev, saves, ok) ==
    IF saves = 0 THEN prev ELSE IF ok THEN "ok" ELSE "failed"

Init ==
    /\ phase = "init"
    /\ token = NoToken
    /\ disk \in Disks
    /\ kaPc = "notstarted"
    /\ kaFails = 0
    /\ kaSlept = FALSE
    /\ saved = "never"
    /\ inflight = EmptyBag
    /\ last = NoEvent

(* A server that takes requests while lifespan's startup is still awaiting. *)
CanAccept_during_startup ==
    phase \in {"autologin", "running"} /\ BagCardinality(inflight) < MaxReq

CanAccept == phase = "running" /\ BagCardinality(inflight) < MaxReq

Suspend(h) == inflight' = inflight (+) SetToBag({h})
Resume(h) == inflight' = inflight (-) SetToBag({h})

(* What startup did: the file as load_session found it, load_session's      *)
(* result, the environment credentials, and the automated login.            *)
StartupEvent(d, fails, ld, emailSet, passwordSet, attempted) ==
    [ev |-> "startup", existed |-> d.kind # "absent", loadFailed |-> fails,
     loaded |-> ld.ret, loadCalls |-> ld.calls,
     emailSet |-> emailSet, passwordSet |-> passwordSet, attempted |-> attempted,
     remote |-> "none", outcome |-> "none", status |-> 0, saves |-> 0,
     saveOk |-> FALSE, tok |-> ld.token]

(* lifespan attempting the automated login whenever an email is set. *)
AttemptsAutoLogin_email_only(session_loaded, emailSet, passwordSet) ==
    ~session_loaded /\ emailSet

(* lifespan: the condition of the automated login. *)
AttemptsAutoLogin(session_loaded, emailSet, passwordSet) ==
    ~session_loaded /\ emailSet /\ passwordSet

(* lifespan, startup: load_session, then the automated login (up to its     *)
(* await of mm.login) or straight on to create_task(keep_alive_loop()).     *)
Startup(fails, emailSet, passwordSet) ==
    /\ phase = "init"
    /\ LET ld == load_session(token, disk, fails)
       IN  /\ token' = ld.token
           /\ IF ld.raised
              THEN /\ phase' = "failed"
                   /\ last' = [ev |-> "startup_failed"]
                   /\ kaPc' = kaPc
              ELSE IF AttemptsAutoLogin(ld.ret, emailSet, passwordSet)
              THEN /\ phase' = "autologin"
                   /\ last' = StartupEvent(disk, fails, ld, emailSet, passwordSet, TRUE)
                   /\ kaPc' = kaPc
              ELSE /\ phase' = "running"
                   /\ last' = StartupEvent(disk, fails, ld, emailSet, passwordSet, FALSE)
                   /\ kaPc' = KeepAliveEntry
    /\ UNCHANGED <<disk, kaFails, kaSlept, saved, inflight>>

(* lifespan, startup: mm.login of the automated login resolves; whatever    *)
(* perform_login returns or raises, the keep-alive task is created.         *)
AutoLoginReturn(outcome, c, so) ==
    /\ phase = "autologin"
    /\ LET r == perform_login(token, disk, outcome, c, so)
       IN  /\ token' = r.token
           /\ disk' = r.disk
           /\ saved' = SavedAfter(saved, r.saves, r.saveOk)
           /\ last' = [last EXCEPT !.remote = outcome, !.outcome = r.body,
                                   !.status = r.status, !.saves = r.saves,
                                   !.saveOk = r.saveOk, !.tok = r.token]
    /\ phase' = "running"
    /\ kaPc' = KeepAliveEntry
    /\ UNCHANGED <<kaFails, kaSlept, inflight>>

(* lifespan, shutdown, saving the session whether authenticated or not. *)
Shutdown_always_saves(so) ==
    /\ phase = "running"
    /\ inflight = EmptyBag
    /\ LET sv == save_session(token, disk, so)
       IN  /\ disk' = sv.disk
           /\ saved' = SavedAfter(saved, 1, sv.ok)
           /\ last' = [ev |-> "shutdown", saves |-> 1, saveOk |-> sv.ok,
                       tok |-> token, raised |-> sv.raised]
    /\ phase' = "stopped"
    /\ UNCHANGED <<token, kaPc, kaFails, kaSlept, inflight>>

(* lifespan, shutdown: runs once the server has drained its requests. *)
Shutdown(so) ==
    /\ phase = "running"
    /\ inflight = EmptyBag
    /\ LET sv == save_session(token, disk, so)
       IN  IF is_authenticated(token)
           THEN /\ disk' = sv.disk
                /\ saved' = SavedAfter(saved, 1, sv.ok)
                /\ last' = [ev |-> "shutdown", saves |-> 1, saveOk |-> sv.ok,
                            tok |-> token, raised |-> sv.raised]
           ELSE /\ disk' = disk
                /\ saved' = saved
                /\ last' = [ev |-> "shutdown", saves |-> 0, saveOk |-> FALSE,
                            tok |-> token, raised |-> FALSE]
    /\ phase' = "stopped"
    /\ UNCHANGED <<token, kaPc, kaFails, kaSlept, inflight>>

(* keep_alive_loop: the top of an iteration, up to the await of             *)
(* mm.get_accounts or of asyncio.sleep.                                     *)
KeepAliveCheck ==
    /\ phase = "running"
    /\ kaPc = "check"
    /\ kaPc' = KeepAliveAfterCheck(token)
    /\ last' = KeepAliveEvent(token, kaPc')
    /\ UNCHANGED <<phase, token, disk, kaFails, kaSlept, saved, inflight>>

(* keep_alive_loop: mm.get_accounts resolves. *)
KeepAlivePingReturn(outcome) ==
    /\ phase = "running"
    /\ kaPc = "pinging"
    /\ kaPc' = KeepAliveAfterPing(outcome)
    /\ kaFails' = IF outcome = "ok" THEN 0
                  ELSE IF kaFails < MaxFails THEN kaFails + 1 ELSE MaxFails
    /\ last' = NoEvent
    /\ UNCHANGED <<phase, token, disk, kaSlept, saved, inflight>>

(* keep_alive_loop: asyncio.sleep(KEEP_ALIVE_INTERVAL) elapses. *)
KeepAliveWake ==
    /\ phase = "running"
    /\ kaPc = "sleeping"
    /\ kaPc' = "check"
    /\ kaSlept' = TRUE
    /\ last' = NoEvent
    /\ UNCHANGED <<phase, token, disk, kaFails, saved, inflight>>

(* GET /health on a server that answers only while nothing is suspended. *)
HealthCheck_blocked ==
    /\ phase = "running"
    /\ inflight = EmptyBag
    /\ kaPc # "pinging"
    /\ LET b == health_check(token)
       IN  last' = Resp("health", 200, b.status, "", NoUpdate, 0, 0, NoCall, "none",
                        0, FALSE, token, b.logged_in)
    /\ UNCHANGED <<phase, token, disk, kaPc, kaFails, kaSlept, saved, inflight>>

(* GET /health *)
HealthCheck ==
    /\ phase = "running"
    /\ LET b == health_check(token)
       IN  last' = Resp("health", 200, b.status, "", NoUpdate, 0, 0, NoCall, "none",
                        0, FALSE, token, b.logged_in)
    /\ UNCHANGED <<phase, token, disk, kaPc, kaFails, kaSlept, saved, inflight>>

LoginCall == [NoCall EXCEPT !.fn = "login"]
MfaCall == [NoCall EXCEPT !.fn = "multi_factor_authenticate"]

(* POST /auth/login, up to the await of mm.login. *)
LoginStart ==
    /\ CanAccept
    /\ Suspend(Handler("login", "", NoUpdate, 0, 0, LoginCall))
    /\ last' = NoEvent
    /\ UNCHANGED <<phase, token, disk, kaPc, kaFails, kaSlept, saved>>

(* POST /auth/login, from the outcome of mm.login to the response. *)
LoginReturn(h, outcome, c, so) ==
    /\ phase = "running"
    /\ h \in BagToSet(inflight)
    /\ h.op = "login"
    /\ Resume(h)
    /\ LET r == perform_login(token, disk, outcome, c, so)
       IN  /\ token' = r.token
           /\ disk' = r.disk
           /\ saved' = SavedAfter(saved, r.saves, r.saveOk)
           /\ last' = Resp("login", r.status, r.body, "", NoUpdate, 0, 0, h.call,
                           outcome, r.saves, r.saveOk, r.token, FALSE)
    /\ UNCHANGED <<phase, kaPc, kaFails, kaSlept>>

(* POST /auth/mfa, up to the await of mm.multi_factor_authenticate. *)
MfaStart ==
    /\ CanAccept
    /\ Suspend(Handler("mfa", "", NoUpdate, 0, 0, MfaCall))
    /\ last' = NoEvent
    /\ UNCHANGED <<phase, token, disk, kaPc, kaFails, kaSlept, saved>>

(* POST /auth/mfa, from the outcome of the remote call to the response. *)
MfaReturn(h, outcome, c, so) ==
    /\ phase = "running"
    /\ h \in BagToSet(inflight)
    /\ h.op = "mfa"
    /\ Resume(h)
    /\ LET r == mfa(token, disk, outcome, c, so)
       IN  /\ token' = r.token
           /\ disk' = r.disk
           /\ saved' = SavedAfter(saved, r.saves, r.saveOk)
           /\ last' = Resp("mfa", r.status, r.body, "", NoUpdate, 0, 0, h.call,
                           outcome, r.saves, r.saveOk, r.token, FALSE)
    /\ UNCHANGED <<phase, kaPc, kaFails, kaSlept>>

(* GET /transactions?days=N, up to the await of mm.get_transactions. *)
GetTransactionsStart(days, now) ==
    /\ phase = "running"
    /\ LET r == get_transactions(token, days, now)
       IN  IF r.kind = "respond"
           THEN /\ last' = Resp("get_transactions", r.status, r.body, "", NoUpdate,
                                days, now, r.call, "none", 0, FALSE, token, FALSE)
                /\ inflight' = inflight
           ELSE /\ BagCardinality(inflight) < MaxReq
                /\ Suspend(Handler("get_transactions", "", NoUpdate, days, now, r.call))
                /\ last' = NoEvent
    /\ UNCHANGED <<phase, token, disk, kaPc, kaFails, kaSlept, saved>>

(* GET /transactions, from the outcome of the remote call to the response. *)
GetTransactionsReturn(h, outcome, payload) ==
    /\ phase = "running"
    /\ h \in BagToSet(inflight)
    /\ h.op = "get_transactions"
    /\ Resume(h)
    /\ LET r == get_transactions_return(outcome, payload)
       IN  last' = Resp("get_transactions", r.status, r.body, "", NoUpdate,
                        h.days, h.now, h.call, outcome, 0, FALSE, token, FALSE)
    /\ UNCHANGED <<phase, token, disk, kaPc, kaFails, kaSlept, saved>>

(* PATCH /transactions/{id}, up to the await of mm.update_transaction. *)
UpdateTransactionStart(id, update) ==
    /\ phase = "running"
    /\ LET r == update_transaction(token, id, update)
       IN  IF r.kind = "respond"
           THEN /\ last' = Resp("update_transaction", r.status, r.body, id, update,
                                0, 0, r.call, "none", 0, FALSE, token, FALSE)
                /\ inflight' = inflight
           ELSE /\ BagCardinality(inflight) < MaxReq
                /\ Suspend(Handler("update_transaction", id, update, 0, 0, r.call))
                /\ last' = NoEvent
    /\ UNCHANGED <<phase, token, disk, kaPc, kaFails, kaSlept, saved>>

(* PATCH /transactions/{id}, from the outcome of the remote call on. *)
UpdateTransactionReturn(h, outcome) ==
    /\ phase = "running"
    /\ h \in BagToSet(inflight)
    /\ h.op = "update_transaction"
    /\ Resume(h)
    /\ LET r == update_transaction_return(outcome)
       IN  last' = Resp("update_transaction", r.status, r.body, h.id, h.update,
                        0, 0, h.call, outcome, 0, FALSE, token, FALSE)
    /\ UNCHANGED <<phase, token, disk, kaPc, kaFails, kaSlept, saved>>

(* The steps of the lifespan, of the keep-alive task and of the routes. *)
Lifecycle ==
    \/ \E fails \in LoadFailures(disk), emailSet, passwordSet \in BOOLEAN :
          Startup(fails, emailSet, passwordSet)
    \/ \E outcome \in LoginOutcomes, c \in Creds, so \in SaveOutcomes :
          AutoLoginReturn(outcome, c, so)
    \/ \E so \in SaveOutcomes : Shutdown(so)

KeepAlive ==
    \/ KeepAliveCheck
    \/ \E outcome \in PingOutcomes : KeepAlivePingReturn(outcome)
    \/ KeepAliveWake

AuthRoutes ==
    \/ HealthCheck
    \/ LoginStart
    \/ \E h \in BagToSet(inflight), outcome \in LoginOutcomes, c \in Creds,
          so \in SaveOutcomes : LoginReturn(h, outcome, c, so)
    \/ MfaStart
    \/ \E h \in BagToSet(inflight), outcome \in MfaOutcomes, c \in Creds,
          so \in SaveOutcomes : MfaReturn(h, outcome, c, so)

TransactionRoutes(daysIn, nowIn, idIn, updateIn) ==
    \/ \E days \in daysIn, now \in nowIn : GetTransactionsStart(days, now)
    \/ \E h \in BagToSet(inflight), outcome \in RemoteOutcomes, payload \in Payloads :
          GetTransactionsReturn(h, outcome, payload)
    \/ \E id \in idIn, update \in updateIn : UpdateTransactionStart(id, update)
    \/ \E h \in BagToSet(inflight), outcome \in RemoteOutcomes :
          UpdateTransactionReturn(h, outcome)

(* The whole service under concurrent requests; the transaction routes      *)
(* take one request of each shape (empty body, a field set to a true        *)
(* value, a field set to a false value).                                    *)
SomeUpdates ==
    {NoUpdate, [NoUpdate EXCEPT !["notes"] = "x"],
     [NoUpdate EXCEPT !["needs_review"] = "False"]}

Next ==
    \/ Lifecycle
    \/ KeepAlive
    \/ AuthRoutes
    \/ TransactionRoutes({DEFAULT_DAYS}, {738946}, {"123"}, SomeUpdates)

Spec == Init /\ [][Next]_vars

(* The transaction routes over every request input within the bounds, one   *)
(* request at a time, on a service that authenticates at startup.           *)
OneAtATime == BagCardinality(inflight') <= 1

NextRoutes ==
    \/ \E fails \in LoadFailures(disk), emailSet, passwordSet \in BOOLEAN :
          Startup(fails, emailSet, passwordSet)
    \/ \E outcome \in LoginOutcomes, c \in Creds, so \in SaveOutcomes :
          AutoLoginReturn(outcome, c, so)
    \/ \E days \in DaysInputs, now \in Nows :
          GetTransactionsStart(days, now) /\ OneAtATime
    \/ \E h \in BagToSet(inflight), outcome \in RemoteOutcomes, payload \in Payloads :
          GetTransactionsReturn(h, outcome, payload)
    \/ \E id \in Ids, update \in UpdateInputs :
          UpdateTransactionStart(id, update) /\ OneAtATime
    \/ \E h \in BagToSet(inflight), outcome \in RemoteOutcomes :
          UpdateTransactionReturn(h, outcome)

SpecRoutes == Init /\ [][NextRoutes]_vars

----------------------------------------------------------------------------
(* Properties *)

IsResp(op) == last.ev = "response" /\ last.op = op

(* C1: POST /auth/mfa whose remote call returns while mm.token is still     *)
(* None answers 401 and does not save the session.                          *)
C1_MfaStillInvalidIs401 ==
    (IsResp("mfa") /\ last.remote \in {"token", "no_token"} /\ last.tok = NoToken)
        => (last.status = 401 /\ last.saves = 0)

(* C2: under every interleaving GET /health answers 200 {status: "ok"},     *)
(* makes no remote call, and logged_in is whether mm.token is set at the    *)
(* moment of the call.                                                      *)
C2_HealthReflectsAuthState ==
    IsResp("health") =>
        /\ last.status = 200
        /\ last.body = "ok"
        /\ last.extra = (last.tok # NoToken)
        /\ last.call = NoCall
        /\ last.remote = "none"

C2_Witness ==
    /\ IsResp("health")
    /\ last.extra = TRUE
    /\ inflight # EmptyBag
    /\ kaPc = "pinging"

(* C3: a login whose mm.login succeeds and an MFA completion that installs  *)
(* a credential answer 200 {status: "success"}; every success response of   *)
(* the two routes is sent with mm.token set and after exactly one           *)
(* save_session call.                                                       *)
C3_SuccessAuthenticatesAndSavesOnce ==
    LET succeeded == \/ IsResp("login") /\ last.remote = "ok"
                     \/ IsResp("mfa") /\ last.remote = "token"
                     \/ (IsResp("login") \/ IsResp("mfa")) /\ last.body = "success"
    IN  succeeded =>
            /\ last.status = 200
            /\ last.body = "success"
            /\ last.tok # NoToken
            /\ last.saves = 1

C3_Witness ==
    /\ IsResp("login")
    /\ last.remote = "ok"
    /\ last.body = "success"
    /\ last.saves = 1
    /\ last.saveOk
    /\ disk = Blob(last.tok)

(* C4 as claimed: a login that meets RequireMFAException answers 200        *)
(* {status: "mfa_required"}, makes no save_session call and leaves mm.token *)
(* None, whatever mm.token was before the request.                          *)
C4_MfaRequiredLeavesUnauthenticated ==
    (IsResp("login") /\ last.remote = "RequireMFAException")
        => /\ last.status = 200
           /\ last.body = "mfa_required"
           /\ last.saves = 0
           /\ last.tok = NoToken

(* C4 as amended: a login that meets RequireMFAException answers 200        *)
(* {status: "mfa_required"}, makes no save_session call and leaves mm.token *)
(* and the session file as they were when mm.login raised.                  *)
C4_MfaRequiredLeavesStateUnchanged ==
    [][(\E h \in BagToSet(inflight), c \in Creds, so \in SaveOutcomes :
            LoginReturn(h, "RequireMFAException", c, so))
        => /\ last'.status = 200
           /\ last'.body = "mfa_required"
           /\ last'.saves = 0
           /\ last'.tok = token
           /\ token' = token
           /\ disk' = disk]_vars

C4_Witness ==
    /\ IsResp("login")
    /\ last.remote = "RequireMFAException"
    /\ last.body = "mfa_required"
    /\ last.tok # NoToken
    /\ token = last.tok

(* C5: a login that meets LoginFailedException answers 401, makes no        *)
(* save_session call and leaves the session file as it was.                 *)
C5_RejectedLoginLeavesDisk ==
    [][(\E h \in BagToSet(inflight), c \in Creds, so \in SaveOutcomes :
            LoginReturn(h, "LoginFailedException", c, so))
        => /\ last'.status = 401
           /\ last'.saves = 0
           /\ disk' = disk
           /\ token' = token]_vars

C5_Witness ==
    /\ IsResp("login")
    /\ last.remote = "LoginFailedException"
    /\ last.status = 401
    /\ disk.kind = "blob"

(* C6: the keep-alive task never leaves its loop: from a ping, failed or    *)
(* not, it goes to the sleep, from the sleep to the next check, and the     *)
(* check decides by mm.token alone, however many pings have failed.         *)
KaLoop == {"check", "pinging", "sleeping"}

TransactionOps == {"get_transactions", "update_transaction"}

C7_UnauthenticatedIs401 ==
    /\ (last.ev = "response" /\ last.op \in TransactionOps /\ last.tok = NoToken)
           => (last.status = 401 /\ last.call = NoCall /\ last.remote = "none")
    /\ \A h \in BagToSet(inflight) : h.op \in TransactionOps => token # NoToken

C7_Witness ==
    /\ IsResp("update_transaction")
    /\ last.tok = NoToken
    /\ last.update = NoUpdate
    /\ last.status = 401

(* C8: PATCH /transactions/{id} while authenticated: the update set is the  *)
(* fields of the body that are not None.  If it is empty the answer is 200  *)
(* {status: "no_change"} without a remote call; otherwise the one remote    *)
(* call is update_transaction with the id and exactly those fields and      *)
(* values, and the answer is 200 {status: "success"} when it returns.       *)
SetFields(update) == {f \in Fields : update[f] # None}

CarriesUpdate(call, id, update) ==
    /\ call.fn = "update_transaction"
    /\ call.id = id
    /\ DOMAIN call.kwargs = SetFields(update)
    /\ \A f \in SetFields(update) : call.kwargs[f] = update[f]

C8_PatchSendsNonNullFields ==
    /\ (IsResp("update_transaction") /\ last.status # 401) =>
          IF SetFields(last.update) = {}
          THEN /\ last.status = 200
               /\ last.body = "no_change"
               /\ last.call = NoCall
               /\ last.remote = "none"
          ELSE /\ CarriesUpdate(last.call, last.id, last.update)
               /\ last.remote \in RemoteOutcomes
               /\ last.remote = "ok" => (last.status = 200 /\ last.body = "success")
               /\ last.remote = "Exception" => last.status = 500
    /\ \A h \in BagToSet(inflight) :
          h.op = "update_transaction" =>
              /\ SetFields(h.update) # {}
              /\ CarriesUpdate(h.call, h.id, h.update)

C8_Witness ==
    /\ IsResp("update_transaction")
    /\ last.body = "success"
    /\ last.update = [NoUpdate EXCEPT !["needs_review"] = "False"]
    /\ last.id = "456"

(* C9: load_session returns False without calling mm.load_session when the  *)
(* file does not exist, True when it exists and mm.load_session succeeds,   *)
(* False when it exists and mm.load_session fails; no exception leaves it.  *)
C9_LoadSessionResult ==
    /\ phase # "failed"
    /\ last.ev = "startup" =>
          /\ ~last.existed => (~last.loaded /\ last.loadCalls = 0)
          /\ (last.existed /\ ~last.loadFailed) => (last.loaded /\ last.loadCalls = 1)
          /\ (last.existed /\ last.loadFailed) => (~last.loaded /\ last.loadCalls = 1)

C9_Witness ==
    /\ last.ev = "startup"
    /\ last.existed
    /\ last.loadFailed
    /\ ~last.loaded
    /\ phase = "running"

(* C10: a failed save_session raises nothing and changes no outcome: the    *)
(* login, the MFA completion and the automated login whose save fails still *)
(* answer {status: "success"} with mm.token set, and shutdown completes.    *)
C10_SaveFailureIsSilent ==
    /\ (IsResp("login") /\ last.remote = "ok" /\ ~last.saveOk)
           => (last.status = 200 /\ last.body = "success" /\ last.tok # NoToken)
    /\ (IsResp("mfa") /\ last.remote = "token" /\ ~last.saveOk)
           => (last.status = 200 /\ last.body = "success" /\ last.tok # NoToken)
    /\ (last.ev = "startup" /\ last.remote = "ok" /\ ~last.saveOk)
           => (last.outcome = "success" /\ last.tok # NoToken)
    /\ last.ev = "shutdown" => ~last.raised

C10_Witness ==
    /\ IsResp("login")
    /\ last.remote = "ok"
    /\ last.saves = 1
    /\ ~last.saveOk
    /\ last.body = "success"
    /\ disk # Blob(last.tok)

(* The ordinal of the calendar date <<year, month, day>>. *)
IsLeap(y) == y % 4 = 0 /\ (y % 100 # 0 \/ y % 400 = 0)

DateOrdinal(ymd) ==
    LET y == ymd[1] - 1
    IN  y * 365 + (y \div 4) - (y \div 100) + (y \div 400)
        + DaysBeforeMonth[ymd[2]]
        + (IF ymd[2] > 2 /\ IsLeap(ymd[1]) THEN 1 ELSE 0)
        + ymd[3]

IsListCall(call, now, days) ==
    /\ call.fn = "get_transactions"
    /\ call.limit = 1000
    /\ DateOrdinal(call.end_date) = now
    /\ DateOrdinal(call.start_date) = now - days
    /\ call.id = ""
    /\ call.kwargs = <<>>

(* C11 as claimed: GET /transactions?days=N while authenticated makes one   *)
(* remote list call with limit 1000, from today minus N days to today, for  *)
(* every N; it answers 200 with the call's payload, 500 when the call fails. *)
C11_ListCallForEveryDays ==
    (IsResp("get_transactions") /\ last.status # 401) =>
        /\ IsListCall(last.call, last.now, last.days)
        /\ last.remote = "ok" => (last.status = 200 /\ last.body \in Payloads)
        /\ last.remote = "Exception" => last.status = 500

(* C11 as amended: the same for every N such that today minus N days is a   *)
(* date of the years 1 to 9999; for any other N the answer is 500 and no    *)
(* remote call is made.  The payload is returned as the call returned it.   *)
C11_ListCallWithinDateRange ==
    /\ [](\A h \in BagToSet(inflight) :
             h.op = "get_transactions" => IsListCall(h.call, h.now, h.days))
    /\ []((IsResp("get_transactions") /\ last.status # 401) =>
             IF last.now - last.days < 1 \/ last.now - last.days > 3652059
             THEN /\ last.status = 500
                  /\ last.call = NoCall
                  /\ last.remote = "none"
             ELSE /\ IsListCall(last.call, last.now, last.days)
                  /\ last.remote \in RemoteOutcomes
                  /\ last.remote = "ok" => last.status = 200
                  /\ last.remote = "Exception" => last.status = 500)
    /\ [][\A h \in BagToSet(inflight), payload \in Payloads :
             GetTransactionsReturn(h, "ok", payload) => last'.body = payload]_vars

C11_Witness ==
    /\ IsResp("get_transactions")
    /\ last.status = 200
    /\ last.body = "[tx]"
    /\ last.days = 30
    /\ last.call.start_date = <<2024, 1, 31>>
    /\ last.call.end_date = <<2024, 3, 1>>

(* C12: no failure of a remote call made by a route handler leaves the      *)
(* handler unanswered, and the answer follows the taxonomy by the kind of   *)
(* the failure: LoginFailedException 401, RequireMFAException 200           *)
(* {status: "mfa_required"}, any other exception 500.                       *)
C12_ResponsesFollowTaxonomy ==
    (last.ev = "response" /\ last.remote # "none") =>
        /\ last.status \in {200, 401, 500}
        /\ last.remote = "LoginFailedException" => last.status = 401
        /\ last.remote = "RequireMFAException" =>
               (last.status = 200 /\ last.body = "mfa_required")
        /\ last.remote = "Exception" => last.status = 500

(* C13 as claimed: no keep-alive ping is issued before the task has slept   *)
(* one full interval since it started.                                      *)
C13_NoPingBeforeFirstSleep == kaPc = "pinging" => kaSlept

(* C13 as amended: the task starts at its check, with no sleep before it;   *)
(* every later check is reached only by the end of a sleep, and every sleep *)
(* is entered from the check or from the ping it led to.                    *)
C13_CheckThenSleep ==
    [][/\ (kaPc = "notstarted" /\ kaPc' # kaPc) => (kaPc' = "check" /\ ~kaSlept')
       /\ (kaPc' = "check" /\ kaPc # "check") => kaPc \in {"notstarted", "sleeping"}
       /\ (kaPc' = "sleeping" /\ kaPc # "sleeping") => kaPc \in {"check", "pinging"}
       /\ (kaPc' = "pinging" /\ kaPc # "pinging") => kaPc = "check"
       /\ kaSlept' # kaSlept => (kaPc = "sleeping" /\ kaPc' = "check" /\ kaSlept')]_vars

C13_Witness == kaPc = "pinging" /\ ~kaSlept /\ phase = "running"

(* C14: a keep-alive check that finds mm.token unset issues no remote call  *)
(* and goes to the sleep; one that finds it set issues one get_accounts     *)
(* call, whose return issues no other and goes to the sleep; the next check *)
(* is reached only by the end of that one sleep.                            *)
C14_OneCallPerAuthenticatedTick ==
    /\ [](last.ev = "keepalive" =>
             IF last.authed
             THEN last.call = GetAccountsCall /\ kaPc = "pinging"
             ELSE last.call = NoCall /\ kaPc = "sleeping")
    /\ [][/\ last'.ev = "keepalive" => (kaPc = "check" /\ last'.authed = (token # NoToken))
          /\ (kaPc = "pinging" /\ kaPc' # kaPc) => (kaPc' = "sleeping" /\ last' = NoEvent)
          /\ (kaPc = "sleeping" /\ kaPc' # kaPc) => (kaPc' = "check" /\ last' = NoEvent)
          /\ (kaPc \in KaLoop /\ kaPc' = "check" /\ kaPc # "check") =>
                 kaPc = "sleeping"]_vars

C14_Witness ==
    /\ last.ev = "keepalive"
    /\ last.authed
    /\ last.call.fn = "get_accounts"
    /\ kaSlept
    /\ kaFails > 0

(* C15: mm.token, once set, is never unset, and it changes only in a step   *)
(* that completes a successful login (by request or at startup), a          *)
(* successful MFA completion, or startup's successful load of the file;     *)
(* keep-alive steps, transaction requests, failed logins and saves leave    *)
(* it as it was.                                                            *)
C15_CredentialNeverCleared ==
    [][/\ token # NoToken => token' # NoToken
       /\ token' # token =>
              \/ /\ last'.ev = "response"
                 /\ last'.op \in {"login", "mfa"}
                 /\ last'.remote \in {"ok", "token"}
                 /\ last'.tok = token'
              \/ /\ last'.ev = "startup"
                 /\ \/ phase = "init" /\ last'.loaded /\ disk = Blob(token')
                    \/ phase = "autologin" /\ last'.remote = "ok"]_vars

C15_Witness ==
    /\ IsResp("mfa")
    /\ last.remote = "LoginFailedException"
    /\ token # NoToken
    /\ kaFails > 0
    /\ disk = Corrupt

(* C16: startup attempts the automated login exactly when load_session      *)
(* returned False and MONARCH_EMAIL and MONARCH_PASSWORD are both set; a    *)
(* successful attempt calls save_session once and leaves mm.token set; any  *)
(* other outcome saves nothing and leaves mm.token unset; in every case     *)
(* startup completes and the keep-alive task is created, once, as it does.  *)
C16_AutoLoginAtStartup ==
    /\ [](last.ev = "startup" =>
             /\ last.attempted = (~last.loaded /\ last.emailSet /\ last.passwordSet)
             /\ phase \in {"autologin", "running"}
             /\ phase = "autologin" => (last.attempted /\ last.remote = "none")
             /\ (phase = "running" /\ last.attempted) =>
                    /\ last.remote \in LoginOutcomes
                    /\ IF last.remote = "ok"
                       THEN /\ token # NoToken /\ last.saves = 1
                            /\ last.saveOk => disk = Blob(token)
                       ELSE token = NoToken /\ last.saves = 0
             /\ (phase = "running" /\ ~last.attempted) =>
                    (last.remote = "none" /\ last.saves = 0))
    /\ [][/\ (phase # "running" /\ phase' = "running") =>
                 (kaPc = "notstarted" /\ kaPc' = "check")
          /\ (kaPc = "notstarted" /\ kaPc' # kaPc) =>
                 (phase \in {"init", "autologin"} /\ phase' = "running")
          /\ kaPc # "notstarted" => kaPc' # "notstarted"
          /\ phase = "autologin" => phase' \in {"autologin", "running"}]_vars

C16_Witness ==
    /\ last.ev = "startup"
    /\ last.existed
    /\ last.attempted
    /\ last.remote = "RequireMFAException"
    /\ phase = "running"
    /\ kaPc = "check"
    /\ token = NoToken

(* C17: shutdown calls save_session once when mm.token is set at that       *)
(* moment and not at all when it is unset; an unauthenticated shutdown      *)
(* leaves the session file as it was, and nothing runs after shutdown.      *)
C17_ShutdownSavesIffAuthenticated ==
    /\ [](last.ev = "shutdown" =>
             /\ phase = "stopped"
             /\ last.tok = token
             /\ last.saves = (IF token # NoToken THEN 1 ELSE 0)
             /\ last.saveOk => (token # NoToken /\ disk = Blob(token)))
    /\ [][/\ (phase = "running" /\ phase' = "stopped" /\ token = NoToken) =>
                 disk' = disk
          /\ phase # "stopped"]_vars

C17_Witness ==
    /\ last.ev = "shutdown"
    /\ last.saves = 0
    /\ token = NoToken
    /\ disk.kind = "blob"

(* C18: whatever remote calls are suspended, of route handlers or of the    *)
(* keep-alive task, the running service can answer GET /health and can      *)
(* complete any login whose mm.login resolves; while the keep-alive task's  *)
(* own get_accounts call is unresolved the task takes no other step: no     *)
(* check and no sleep.                                                      *)
C18_SuspendedCallBlocksOnlyItsTask ==
    /\ phase = "running" => ENABLED HealthCheck
    /\ \A h \in BagToSet(inflight) :
          h.op = "login" =>
              ENABLED (\E outcome \in LoginOutcomes, c \in Creds, so \in SaveOutcomes :
                          LoginReturn(h, outcome, c, so))
    /\ kaPc = "pinging" =>
          /\ ~ENABLED KeepAliveCheck
          /\ ~ENABLED KeepAliveWake
          /\ phase = "running" =>
                 ENABLED (\E outcome \in PingOutcomes : KeepAlivePingReturn(outcome))

C18_Witness ==
    /\ IsResp("login")
    /\ last.status = 200
    /\ kaPc = "pinging"
    /\ \E h \in BagToSet(inflight) : h.op = "get_transactions"

(* C19: every step that changes the session file is a save_session call     *)
(* made with mm.token set, and what it writes is that credential (or, when  *)
(* the write fails, an unreadable file); the file never holds an absent     *)
(* credential; and whenever the latest save_session call succeeded and no   *)
(* login or MFA request is suspended, the file holds mm.token.              *)
LoginOrMfaInFlight ==
    phase = "autologin" \/ \E h \in BagToSet(inflight) : h.op \in {"login", "mfa"}

C19_FileHoldsCredential ==
    /\ []((saved = "ok" /\ ~LoginOrMfaInFlight) =>
             (token # NoToken /\ disk = Blob(token)))
    /\ [](disk.kind = "blob" => disk.token # NoToken)
    /\ [][disk' # disk =>
             /\ token' # NoToken
             /\ last'.saves = 1
             /\ saved' = (IF disk' = Blob(token') THEN "ok" ELSE "failed")
             /\ disk' \in {Blob(token'), Corrupt}]_vars

C19_Witness ==
    /\ saved = "ok"
    /\ last.ev = "shutdown"
    /\ last.saves = 1
    /\ disk = Blob(token)
    /\ kaPc = "pinging"
    /\ kaFails > 0

(* C20: until lifespan's startup has finished load_session and, when it     *)
(* attempts one, the automated login, no request has been taken or answered *)
(* and the keep-alive task has not been created; while the automated        *)
(* login's mm.login is unresolved no route and no keep-alive step can be    *)
(* taken, however long that lasts.                                          *)
StartingUp == phase \in {"init", "autologin"}

C20_StartupBeforeService ==
    /\ [](StartingUp =>
             /\ kaPc = "notstarted"
             /\ inflight = EmptyBag
             /\ last.ev \in {"none", "startup"}
             /\ ~ENABLED KeepAlive
             /\ ~ENABLED AuthRoutes
             /\ ~ENABLED TransactionRoutes(DaysInputs, Nows, Ids, SomeUpdates)
             /\ ~ENABLED (\E so \in SaveOutcomes : Shutdown(so)))
    /\ [][/\ last'.ev \in {"response", "keepalive"} => phase = "running"
          /\ phase = "autologin" =>
                 \E outcome \in LoginOutcomes, c \in Creds, so \in SaveOutcomes :
                     AutoLoginReturn(outcome, c, so)]_vars

C20_Witness ==
    /\ phase = "autologin"
    /\ last.ev = "startup"
    /\ last.attempted
    /\ last.remote = "none"
    /\ disk = Corrupt
====
